---- MODULE Spec2Model ----
(***************************************************************************)
(* A model of dynajson (src/dynajson.go, the current version in lines      *)
(* 1-870): the JSONElement wrapper over an untyped Go value, its           *)
(* navigation, mutation, enumeration and serialisation.                    *)
(*                                                                         *)
(* Go values are modelled as records tagged with their dynamic type:       *)
(*   nil, bool, int, float64, string         scalars, held by value        *)
(*   slice  ([]interface{})                  a sequence held by value      *)
(*   parr   (pointer to []interface{})      a pointer to a heap cell      *)
(*   map    (map[string]interface{})         a reference to a heap cell    *)
(* The heap is a sequence of cells; a cell's address is its index.         *)
(***************************************************************************)
EXTENDS Integers, Sequences, FiniteSets, TLC

VARIABLES heap, elems, last, ops

vars == <<heap, elems, last, ops>>

---------------------------------------------------------------------------
(* Bounds of the model *)

\* the number of API calls made in one run
MaxOps == 3

---------------------------------------------------------------------------
(* Go values *)

Nil == [t |-> "nil"]

BoolV(b) == [t |-> "bool", b |-> b]

IntV(n) == [t |-> "int", n |-> n]

RECURSIVE Float(_, _, _)
\* the float64 a decimal text denotes, (-1)^neg * m * 10^e, as the shortest
\* decimal that denotes it: m ends in no 0, and zero has m = 0 and e = 0
\* (negative zero keeps its sign).  A decimal of at most nine digits within
\* the exponents of a normal float64 is the shortest decimal of its float64.
Float(neg, m, e) ==
    IF m = 0 THEN [t |-> "float64", neg |-> neg, m |-> 0, e |-> 0]
    ELSE IF m % 10 = 0 THEN Float(neg, m \div 10, e + 1)
    ELSE [t |-> "float64", neg |-> neg, m |-> m, e |-> e]

\* float64(n) of a whole n
FloatV(n) == Float(n < 0, IF n < 0 THEN 0 - n ELSE n, 0)

StrV(s) == [t |-> "string", s |-> s]

Slice(s) == [t |-> "slice", s |-> s]

PArr(a) == [t |-> "parr", a |-> a]

Map(a) == [t |-> "map", a |-> a]

MapCell(m) == [kind |-> "map", m |-> m]

ArrCell(s) == [kind |-> "arr", s |-> s]

EmptyFn == [k \in {} |-> Nil]

\* a nil *JSONElement
NoElem == [t |-> "noelem"]

\* the cells of one heap with one more cell at the next address
Alloc(h, cell) == [h |-> Append(h, cell), a |-> Len(h) + 1]

---------------------------------------------------------------------------
(* Serialisation: escapeJSONString and Dump *)

RECURSIVE EscapeFrom(_, _)
\* the loop of escapeJSONString from rune i on: a backslash (92) is written
\* before a double quote (34) and before a backslash, then the rune itself
EscapeFrom(arg, i) ==
    IF i > Len(arg) THEN ""
    ELSE LET r == SubSeq(arg, i, i)
         IN  (IF r \in {"\"", "\\"} THEN "\\" ELSE "") \o r \o EscapeFrom(arg, i + 1)

escapeJSONString(arg) == EscapeFrom(arg, 1)

Digit(d) == SubSeq("0123456789", d + 1, d + 1)

RECURSIVE Decimal(_)
\* the decimal digits of a natural number
Decimal(n) == IF n < 10 THEN Digit(n) ELSE Decimal(n \div 10) \o Digit(n % 10)

RECURSIVE Zeros(_)
Zeros(k) == IF k <= 0 THEN "" ELSE "0" \o Zeros(k - 1)

\* %v of a float64: strconv's 'g' format with the shortest digits.  With
\* digits d, nd of them, and the decimal point after dp of them, the
\* exponent form d.ddde+XX (two exponent digits at least) is written when
\* dp - 1 < -4 or dp - 1 >= 6, and the plain form otherwise; zero is "0",
\* and the sign of a negative zero is written
FormatFloat(v) ==
    LET sign == IF v.neg THEN "-" ELSE ""
        d    == Decimal(v.m)
        nd   == Len(d)
        dp   == nd + v.e
        exp  == dp - 1
        abs  == IF exp < 0 THEN 0 - exp ELSE exp
    IN  CASE v.m = 0 -> sign \o "0"
          [] v.m # 0 /\ (exp < 0 - 4 \/ exp >= 6) ->
                sign \o SubSeq(d, 1, 1)
                     \o (IF nd > 1 THEN "." \o SubSeq(d, 2, nd) ELSE "")
                     \o "e" \o (IF exp < 0 THEN "-" ELSE "+")
                     \o (IF abs < 10 THEN "0" ELSE "") \o Decimal(abs)
          [] OTHER ->
                IF dp <= 0 THEN sign \o "0." \o Zeros(0 - dp) \o d
                ELSE IF dp >= nd THEN sign \o d \o Zeros(dp - nd)
                ELSE sign \o SubSeq(d, 1, dp) \o "." \o SubSeq(d, dp + 1, nd)

\* fmt.Sprintf("%v", v) of the values that reach Dump's default case: an
\* int is written as its decimal digits
SprintfV(v) ==
    CASE v.t = "nil"     -> "<nil>"
      [] v.t = "bool"    -> (IF v.b THEN "true" ELSE "false")
      [] v.t = "float64" -> FormatFloat(v)
      [] OTHER           -> (IF v.n < 0 THEN "-" \o Decimal(0 - v.n) ELSE Decimal(v.n))

RECURSIVE Perms(_)
\* the orders in which a range over a Go map may yield the keys S
Perms(S) ==
    IF S = {} THEN {<<>>}
    ELSE UNION {{<<k>> \o p : p \in Perms(S \ {k})} : k \in S}

\* buf.Truncate(buf.Len() - 2)
Truncate2(buf) == SubSeq(buf, 1, Len(buf) - 2)

RECURSIVE Dump(_, _), DumpLoop(_, _, _)
\* what the loops of Dump write from entry i on: each entry's prefix (the
\* quoted key and ": " for a map, nothing for an array), its dump, then ", "
DumpLoop(h, items, i) ==
    IF i > Len(items) THEN {""}
    ELSE {items[i].pre \o d \o ", " \o rest :
             d \in Dump(h, items[i].v), rest \in DumpLoop(h, items, i + 1)}

\* Dump: the texts it may write for value v (a range over a map yields the
\* keys in an unspecified order, so a map has one text per order)
Dump(h, v) ==
    CASE v.t = "parr" -> Dump(h, Slice(h[v.a].s))
      [] v.t = "slice" ->
            LET items == [i \in 1..Len(v.s) |-> [pre |-> "", v |-> v.s[i]]]
            IN  {"[" \o (IF Len(v.s) > 0 THEN Truncate2(b) ELSE b) \o "]" :
                    b \in DumpLoop(h, items, 1)}
      [] v.t = "map" ->
            LET m == h[v.a].m
            IN  UNION {
                  LET items == [i \in 1..Len(ks) |->
                                  [pre |-> "\"" \o escapeJSONString(ks[i]) \o "\"" \o ": ",
                                   v   |-> m[ks[i]]]]
                  IN  {"{" \o (IF Len(ks) > 0 THEN Truncate2(b) ELSE b) \o "}" :
                          b \in DumpLoop(h, items, 1)}
                  : ks \in Perms(DOMAIN m)}
      [] v.t = "string" -> {"\"" \o escapeJSONString(v.s) \o "\""}
      [] OTHER -> {SprintfV(v)}

\* JSONElement.String: nothing is written for a nil raw
String(h, me) == IF me.raw.t # "nil" THEN Dump(h, me.raw) ELSE {""}

---------------------------------------------------------------------------
(* Construction: New, NewAsMap, NewAsArray, NewByBytes.  json.Unmarshal   *)
(* into an interface{} builds map[string]interface{} for an object,        *)
(* []interface{} for an array, float64 for a number and nil for null.      *)
(* The runes of the model are the ASCII runes 0x01 to 0x7F but the grave   *)
(* accent (0x60); what the code does with a text holding another rune has  *)
(* no counterpart here, and the operators below have no value for it.  A   *)
(* number's digits, without its leading and trailing zeros, fit 31 bits.   *)

\* the runes 0x20 to 0x5F and 0x61 to 0x7E in ascending order
Printable ==
    " !\"#$%&'()*+,-./0123456789:;<=>?@ABCDEFGHIJKLMNOPQRSTUVWXYZ[\\]^_"
    \o "abcdefghijklmnopqrstuvwxyz{|}~"

\* the control runes 0x01 to 0x1F in ascending order
Control == "\t\n\f\r"

\* the runes of the model in ascending byte order: 0x01 to 0x5F, then 0x61
\* to 0x7F
ByteOrder == Control \o Printable \o ""

\* the code point of the rune at place k of ByteOrder
CodeAt(k) == IF k < 96 THEN k ELSE k + 1

\* the place of a rune in ByteOrder (none for a rune outside the model)
ByteOf(c) == CHOOSE i \in 1..Len(ByteOrder) : SubSeq(ByteOrder, i, i) = c

\* the rune of a code point (none for a code point outside the model)
RuneOf(cp) ==
    LET k == CHOOSE i \in 1..Len(ByteOrder) : CodeAt(i) = cp
    IN  SubSeq(ByteOrder, k, k)

Ch(s, i) == IF i >= 1 /\ i <= Len(s) THEN SubSeq(s, i, i) ELSE ""

HasPrefix(s, i, lit) ==
    i + Len(lit) - 1 <= Len(s) /\ SubSeq(s, i, i + Len(lit) - 1) = lit

IsDigit(c) == \E d \in 0..9 : Digit(d) = c

DigitVal(c) == CHOOSE d \in 0..9 : Digit(d) = c

Upd(m, k, v) == [x \in (DOMAIN m) \cup {k} |-> IF x = k THEN v ELSE m[x]]

RECURSIVE SkipWs(_, _)
\* white space between tokens: space, tab, line feed, carriage return
SkipWs(s, i) == IF Ch(s, i) \in {" ", "\t", "\n", "\r"} THEN SkipWs(s, i + 1) ELSE i

IsHex(c) == c # "" /\ \E d \in 0..15 :
                c \in {SubSeq("0123456789abcdef", d + 1, d + 1),
                       SubSeq("0123456789ABCDEF", d + 1, d + 1)}

HexVal(c) == CHOOSE d \in 0..15 :
                c \in {SubSeq("0123456789abcdef", d + 1, d + 1),
                       SubSeq("0123456789ABCDEF", d + 1, d + 1)}

\* the code point of the four hexadecimal digits at i, or -1
Hex4(s, i) ==
    IF \A k \in 0..3 : IsHex(Ch(s, i + k))
    THEN ((HexVal(Ch(s, i)) * 16 + HexVal(Ch(s, i + 1))) * 16
             + HexVal(Ch(s, i + 2))) * 16 + HexVal(Ch(s, i + 3))
    ELSE 0 - 1

\* the rune an escape letter stands for
Unescape(c) ==
    CASE c = "b" -> RuneOf(8)
      [] c = "t" -> RuneOf(9)
      [] c = "n" -> RuneOf(10)
      [] c = "f" -> RuneOf(12)
      [] c = "r" -> RuneOf(13)
      [] OTHER   -> c

\* the code point of the escape \uXXXX at i, XXXX being hi, and the runes of
\* the text it takes: a high surrogate followed by the escape of a low one
\* stands with it for one code point above 0xFFFF, and any other surrogate
\* for the replacement character 0xFFFD
ScanU(s, i, hi) ==
    LET lo == IF Ch(s, i + 6) = "\\" /\ Ch(s, i + 7) = "u" THEN Hex4(s, i + 8) ELSE 0 - 1
    IN  IF hi < 55296 \/ hi >= 57344 THEN [cp |-> hi, n |-> 6]
        ELSE IF hi < 56320 /\ lo >= 56320 /\ lo < 57344
        THEN [cp |-> (hi - 55296) * 1024 + (lo - 56320) + 65536, n |-> 12]
        ELSE [cp |-> 65533, n |-> 6]

RECURSIVE ScanString(_, _, _)
\* a string literal from the rune after its opening quote: the escapes
\* \" \\ \/ \b \f \n \r \t and \uXXXX are decoded, and a rune below 0x20
\* that is not escaped ends the scan with an error
ScanString(s, i, acc) ==
    LET c == Ch(s, i)
        e == Ch(s, i + 1)
        u == ScanU(s, i, Hex4(s, i + 2))
    IN  CASE c = ""   -> [ok |-> FALSE]
          [] c = "\"" -> [ok |-> TRUE, str |-> acc, i |-> i + 1]
          [] c = "\\" ->
                (IF e \in {"\"", "\\", "/", "b", "f", "n", "r", "t"}
                 THEN ScanString(s, i + 2, acc \o Unescape(e))
                 ELSE IF e = "u" /\ Hex4(s, i + 2) >= 0
                 THEN ScanString(s, i + u.n, acc \o RuneOf(u.cp))
                 ELSE [ok |-> FALSE])
          [] c \notin {"", "\"", "\\"} /\ CodeAt(ByteOf(c)) < 32 -> [ok |-> FALSE]
          [] OTHER    -> ScanString(s, i + 1, acc \o c)

\* an exponent past which a number of fewer digits than this is zero, above
\* every float64 or below every float64, whatever its digits
MaxExp == 100000

RECURSIVE ScanDigits(_, _, _)
\* the digits of an exponent, read up to the first value past MaxExp
ScanDigits(s, i, acc) ==
    IF IsDigit(Ch(s, i))
    THEN ScanDigits(s, i + 1, IF acc > MaxExp THEN acc ELSE acc * 10 + DigitVal(Ch(s, i)))
    ELSE [n |-> acc, i |-> i]

RECURSIVE Pow10(_)
Pow10(k) == IF k <= 0 THEN 1 ELSE 10 * Pow10(k - 1)

RECURSIVE ScanMant(_, _, _, _)
\* the digits of the integer part or of the fraction, added to the digits
\* read so far: m, followed by z zeros
ScanMant(s, i, m, z) ==
    IF ~IsDigit(Ch(s, i)) THEN [m |-> m, z |-> z, i |-> i]
    ELSE LET d == DigitVal(Ch(s, i))
         IN  IF d = 0 THEN ScanMant(s, i + 1, m, IF m = 0 THEN 0 ELSE z + 1)
             ELSE ScanMant(s, i + 1, m * Pow10(z + 1) + d, 0)

\* the first nine digits of m, with zeros after them when m has fewer
Hi9(m) ==
    LET nd == Len(Decimal(m))
    IN  IF nd <= 9 THEN m * Pow10(9 - nd) ELSE m \div Pow10(nd - 9)

\* the tenth digit of m, 0 when m has fewer
Lo(m) == IF Len(Decimal(m)) <= 9 THEN 0 ELSE m % 10

\* m * 10^e, its first digit at 10^exp, is above every float64: the largest
\* is 1.7976931348623157e308, and a decimal rounds to it up to
\* 1.797693134862315807e308
TooLarge(m, exp) ==
    \/ exp > 308
    \/ exp = 308 /\ Hi9(m) > 179769313
    \/ exp = 308 /\ Hi9(m) = 179769313 /\ Lo(m) >= 5

\* m * 10^e rounds to zero: it is at most half the smallest float64,
\* 4.94e-324, which is 2.4703282292062327e-324
TooSmall(m, exp) ==
    \/ exp < 0 - 324
    \/ exp = 0 - 324 /\ Hi9(m) <= 247032822

\* m * 10^e is at least the smallest normal float64,
\* 2.2250738585072014e-308
IsNormal(m, exp) ==
    \/ exp > 0 - 308
    \/ exp = 0 - 308 /\ Hi9(m) > 222507385
    \/ exp = 0 - 308 /\ Hi9(m) = 222507385 /\ Lo(m) >= 9

\* the float64 of the decimal (-1)^neg * m * 10^e, its first digit at 10^exp
ParseDecimal(neg, m, e, exp) ==
    CASE m = 0 -> [ok |-> TRUE, v |-> Float(neg, 0, 0)]
      [] m # 0 /\ TooLarge(m, exp) -> [ok |-> FALSE]
      [] m # 0 /\ ~TooLarge(m, exp) /\ TooSmall(m, exp) ->
            [ok |-> TRUE, v |-> Float(neg, 0, 0)]
      [] m # 0 /\ ~TooLarge(m, exp) /\ IsNormal(m, exp) ->
            [ok |-> TRUE, v |-> Float(neg, m, e)]

\* strconv.ParseFloat of the decimal (-1)^neg * m * 10^e, m of ten digits at
\* most: an error above every float64, zero with the sign of the decimal
\* when it rounds to zero, and otherwise, for a normal float64, the float64
\* of which the decimal is the shortest decimal.  Between zero and the
\* normal numbers the code rounds to a subnormal float64, whose shortest
\* decimal has other digits: the model has no value for such a decimal.
ParseFloat(neg, m, e) == ParseDecimal(neg, m, e, Len(Decimal(m)) + e - 1)

\* a number literal that ends before rune i, with its float64 or the error
\* of strconv.ParseFloat
NumberEnd(f, i) ==
    IF f.ok THEN [ok |-> TRUE, v |-> f.v, i |-> i] ELSE [ok |-> FALSE]

\* the exponent of a number literal after its e or E: an optional sign and
\* one digit at least.  The digits read are frac.m followed by frac.z
\* zeros, the last fl of them after the point.
ScanExponent(s, neg, frac, fl, sgn, k) ==
    LET ex == ScanDigits(s, k, 0)
    IN  IF ex.i = k THEN [ok |-> FALSE]
        ELSE NumberEnd(ParseFloat(neg, frac.m,
                                  frac.z - fl + (IF sgn = "-" THEN 0 - ex.n ELSE ex.n)),
                       ex.i)

\* the end of a number literal after its digits: an exponent, if any
ScanTail(s, neg, frac, fl) ==
    IF Ch(s, frac.i) \in {"e", "E"}
    THEN ScanExponent(s, neg, frac, fl, Ch(s, frac.i + 1),
                      IF Ch(s, frac.i + 1) \in {"+", "-"} THEN frac.i + 2 ELSE frac.i + 1)
    ELSE NumberEnd(ParseFloat(neg, frac.m, frac.z - fl), frac.i)

\* the digits of a fraction from rune i on, after the point
ScanFractionDigits(s, neg, frac, i) == ScanTail(s, neg, frac, frac.i - i)

\* the fraction of a number literal, if any, after its integer part: a
\* point and one digit at least
ScanFraction(s, neg, int) ==
    IF Ch(s, int.i) # "." THEN ScanTail(s, neg, int, 0)
    ELSE IF ~IsDigit(Ch(s, int.i + 1)) THEN [ok |-> FALSE]
    ELSE ScanFractionDigits(s, neg, ScanMant(s, int.i + 1, int.m, int.z), int.i + 1)

\* the integer part of a number literal from rune j on: 0 or digits without
\* a leading 0
ScanInteger(s, neg, j) ==
    IF ~IsDigit(Ch(s, j)) THEN [ok |-> FALSE]
    ELSE ScanFraction(s, neg, IF Ch(s, j) = "0" THEN [m |-> 0, z |-> 0, i |-> j + 1]
                              ELSE ScanMant(s, j, 0, 0))

\* a number literal: an optional minus, an integer part, then an optional
\* fraction and an optional exponent; its value is a float64
ScanNumber(s, i) ==
    IF Ch(s, i) = "-" THEN ScanInteger(s, TRUE, i + 1) ELSE ScanInteger(s, FALSE, i)

RECURSIVE ParseValue(_, _, _), ParseElems(_, _, _, _), ParseMembers(_, _, _, _)
ParseValue(h, s, i0) ==
    LET i == SkipWs(s, i0)
        c == Ch(s, i)
    IN  CASE HasPrefix(s, i, "null")  -> [ok |-> TRUE, h |-> h, v |-> Nil, i |-> i + 4]
          [] HasPrefix(s, i, "true")  -> [ok |-> TRUE, h |-> h, v |-> BoolV(TRUE), i |-> i + 4]
          [] HasPrefix(s, i, "false") -> [ok |-> TRUE, h |-> h, v |-> BoolV(FALSE), i |-> i + 5]
          [] c = "\"" ->
                LET r == ScanString(s, i + 1, "")
                IN  IF r.ok THEN [ok |-> TRUE, h |-> h, v |-> StrV(r.str), i |-> r.i]
                    ELSE [ok |-> FALSE]
          [] c = "-" \/ IsDigit(c) ->
                LET r == ScanNumber(s, i)
                IN  IF r.ok THEN [ok |-> TRUE, h |-> h, v |-> r.v, i |-> r.i]
                    ELSE [ok |-> FALSE]
          [] c = "[" ->
                LET j == SkipWs(s, i + 1)
                IN  IF Ch(s, j) = "]"
                    THEN [ok |-> TRUE, h |-> h, v |-> Slice(<<>>), i |-> j + 1]
                    ELSE ParseElems(h, s, j, <<>>)
          [] c = "{" ->
                LET j == SkipWs(s, i + 1)
                IN  IF Ch(s, j) = "}"
                    THEN LET al == Alloc(h, MapCell(EmptyFn))
                         IN  [ok |-> TRUE, h |-> al.h, v |-> Map(al.a), i |-> j + 1]
                    ELSE ParseMembers(h, s, j, EmptyFn)
          [] OTHER -> [ok |-> FALSE]

\* the elements of an array from the start of one element
ParseElems(h, s, i, acc) ==
    LET r == ParseValue(h, s, i)
        j == SkipWs(s, r.i)
    IN  IF ~r.ok THEN [ok |-> FALSE]
        ELSE CASE Ch(s, j) = "," -> ParseElems(r.h, s, j + 1, Append(acc, r.v))
               [] Ch(s, j) = "]" ->
                     [ok |-> TRUE, h |-> r.h, v |-> Slice(Append(acc, r.v)), i |-> j + 1]
               [] OTHER -> [ok |-> FALSE]

\* the members of an object from the start of one member; a repeated key
\* keeps its last value
ParseMembers(h, s, i, m) ==
    LET j  == SkipWs(s, i)
        k  == ScanString(s, j + 1, "")
        j2 == SkipWs(s, k.i)
        r  == ParseValue(h, s, j2 + 1)
        j3 == SkipWs(s, r.i)
    IN  IF Ch(s, j) # "\"" \/ ~k.ok THEN [ok |-> FALSE]
        ELSE IF Ch(s, j2) # ":" \/ ~r.ok THEN [ok |-> FALSE]
        ELSE CASE Ch(s, j3) = "," -> ParseMembers(r.h, s, j3 + 1, Upd(m, k.str, r.v))
               [] Ch(s, j3) = "}" ->
                     LET al == Alloc(r.h, MapCell(Upd(m, k.str, r.v)))
                     IN  [ok |-> TRUE, h |-> al.h, v |-> Map(al.a), i |-> j3 + 1]
               [] OTHER -> [ok |-> FALSE]

\* json.Unmarshal(data, &obj): the value and the cells it allocates, or an
\* error on a malformed text or on text after the value
\* the end of json.Unmarshal: the value parsed, r, when nothing but white
\* space follows it
UnmarshalEnd(data, r) ==
    IF r.ok /\ SkipWs(data, r.i) > Len(data) THEN r ELSE [ok |-> FALSE]

Unmarshal(h, data) == UnmarshalEnd(data, ParseValue(h, data, 1))

New(obj) ==
    [raw |-> obj, WarnHandler |-> FALSE, FatalHandler |-> FALSE,
     Level |-> 0, Readonly |-> FALSE]

NewAsMap(h) ==
    LET al == Alloc(h, MapCell(EmptyFn)) IN [h |-> al.h, me |-> New(Map(al.a))]

NewAsArray(h) ==
    LET al == Alloc(h, ArrCell(<<>>)) IN [h |-> al.h, me |-> New(PArr(al.a))]

\* the end of NewByBytes: the error of json.Unmarshal, or New(obj)
NewOrError(r) ==
    IF ~r.ok THEN [ok |-> FALSE] ELSE [ok |-> TRUE, h |-> r.h, me |-> New(r.v)]

NewByBytes(h, data) == NewOrError(Unmarshal(h, data))

NewByString(h, data) == NewByBytes(h, data)

---------------------------------------------------------------------------
(* Diagnostics.  An operation reports how many times it invoked the        *)
(* WarnHandler (warn) and the FatalHandler (fatal).                        *)

\* JSONElement.Warn: the handler is called once, when there is one
Warn(me) == IF ~me.WarnHandler THEN 0 ELSE 1

\* JSONElement.Fatal: the FatalHandler, or without one the WarnHandler
Fatal(me) ==
    IF ~me.FatalHandler
    THEN [warn |-> (IF ~me.WarnHandler THEN 0 ELSE 1), fatal |-> 0]
    ELSE [warn |-> 0, fatal |-> 1]

\* JSONElement.Errorf: the error, reported through Fatal as well
Errorf(me, h, kind) ==
    [h |-> h, err |-> kind, warn |-> Fatal(me).warn, fatal |-> Fatal(me).fatal,
     panic |-> FALSE]

\* JSONElement.Raw: nil for a nil Element
Raw(me) == IF me = NoElem THEN Nil ELSE me.raw

IsNil(me) == Raw(me) = Nil

IsMap(me) == Raw(me).t = "map"

IsArray(me) == Raw(me).t \in {"slice", "parr"}

\* child, had it made every child read-only
childAlwaysReadonly(me, raw) ==
    [raw |-> raw, WarnHandler |-> me.WarnHandler, FatalHandler |-> FALSE,
     Level |-> me.Level + 1, Readonly |-> TRUE]

\* child, had it left the read-only flag behind
childWithoutReadonly(me, raw) ==
    [raw |-> raw, WarnHandler |-> me.WarnHandler, FatalHandler |-> FALSE,
     Level |-> me.Level + 1, Readonly |-> FALSE]

\* JSONElement.child: the handler, the level and the read-only flag of the
\* parent go to the child; the FatalHandler does not
child(me, raw) ==
    [raw |-> raw, WarnHandler |-> me.WarnHandler, FatalHandler |-> FALSE,
     Level |-> me.Level + 1, Readonly |-> me.Readonly]

\* m[key] of a Go map: the zero value (nil) for an absent key
MapIndex(m, key) == IF key \in DOMAIN m THEN m[key] ELSE Nil

\* the sequence behind an array value of either type
ArrOf(h, v) == IF v.t = "parr" THEN h[v.a].s ELSE v.s

---------------------------------------------------------------------------
(* Navigation *)

\* Count, had it no case for a pointer to an array
CountWithoutPointerCase(h, me) ==
    CASE IsNil(me)            -> [n |-> 0, warn |-> Warn(me)]
      [] me.raw.t = "map"     -> [n |-> Cardinality(DOMAIN h[me.raw.a].m), warn |-> 0]
      [] me.raw.t = "slice"   -> [n |-> Len(me.raw.s), warn |-> 0]
      [] OTHER                -> [n |-> 1, warn |-> Warn(me)]

Count(h, me) ==
    CASE IsNil(me)            -> [n |-> 0, warn |-> Warn(me)]
      [] me.raw.t = "map"     -> [n |-> Cardinality(DOMAIN h[me.raw.a].m), warn |-> 0]
      [] me.raw.t = "slice"   -> [n |-> Len(me.raw.s), warn |-> 0]
      [] me.raw.t = "parr"    -> [n |-> Len(h[me.raw.a].s), warn |-> 0]
      [] OTHER                -> [n |-> 1, warn |-> Warn(me)]

SelectByKey(h, me, key) ==
    IF IsNil(me) THEN [res |-> child(me, Nil), warn |-> Warn(me), panic |-> FALSE]
    ELSE IF me.raw.t # "map"
    THEN [res |-> child(me, Nil), warn |-> Warn(me), panic |-> FALSE]
    ELSE [res |-> child(me, MapIndex(h[me.raw.a].m, key)), warn |-> 0, panic |-> FALSE]

\* (*refArr)[pos] with a negative pos is an index out of range: a panic
SelectByPos(h, me, pos) ==
    IF IsNil(me) THEN [res |-> child(me, Nil), warn |-> Warn(me), panic |-> FALSE]
    ELSE IF ~IsArray(me)
    THEN [res |-> child(me, Nil), warn |-> Warn(me), panic |-> FALSE]
    ELSE LET refArr == ArrOf(h, me.raw)
             containerLen == Len(refArr)
         IN  IF pos >= containerLen
             THEN [res |-> child(me, Nil), warn |-> Warn(me), panic |-> FALSE]
             ELSE IF pos < 0
             THEN [res |-> child(me, Nil), warn |-> 0, panic |-> TRUE]
             ELSE [res |-> child(me, refArr[pos + 1]), warn |-> 0, panic |-> FALSE]

\* the keys of Select, had it left the other arguments out after a []string
SelectArgsWithoutRest(key1, keys) ==
    IF key1.t = "[]string" THEN [i \in 1..Len(key1.s) |-> StrV(key1.s[i])]
    ELSE IF key1.t = "slice" THEN key1.s \o keys ELSE <<key1>> \o keys

\* the keys of Select after its first two blocks: a []string first argument
\* becomes a []interface{}, and that is joined with the other arguments
SelectArgs(key1, keys) ==
    LET k1 == IF key1.t = "[]string"
              THEN Slice([i \in 1..Len(key1.s) |-> StrV(key1.s[i])])
              ELSE key1
    IN  IF k1.t = "slice" THEN k1.s \o keys ELSE <<k1>> \o keys

RECURSIVE Select(_, _, _, _)
Select(h, me, key1, keys) ==
    IF IsNil(me) THEN [res |-> child(me, Nil), warn |-> Warn(me), panic |-> FALSE]
    ELSE LET args == SelectArgs(key1, keys)
         IN  IF args = <<>>
             THEN [res |-> child(me, Nil), warn |-> Warn(me), panic |-> FALSE]
             ELSE LET k    == args[1]
                      rest == Tail(args)
                      next == CASE k.t = "int"    -> SelectByPos(h, me, k.n)
                                [] k.t = "string" -> SelectByKey(h, me, k.s)
                                [] OTHER -> [res |-> child(me, Nil), warn |-> Warn(me),
                                             panic |-> FALSE, cast |-> TRUE]
                  IN  IF "cast" \in DOMAIN next \/ next.panic \/ rest = <<>>
                      THEN [res |-> next.res, warn |-> next.warn, panic |-> next.panic]
                      ELSE LET r == Select(h, next.res, rest[1], Tail(rest))
                           IN  [res |-> r.res, warn |-> next.warn + r.warn,
                                panic |-> r.panic]

\* JSONElement.Keys: the keys in the order a range over the map yields them,
\* which is any order
Keys(h, me) ==
    IF IsNil(me) \/ me.raw.t # "map" THEN [keys |-> {<<>>}, warn |-> Warn(me)]
    ELSE [keys |-> Perms(DOMAIN h[me.raw.a].m), warn |-> 0]

AsArray(h, me) ==
    IF IsNil(me) \/ ~IsArray(me) THEN [arr |-> <<>>, warn |-> Warn(me)]
    ELSE LET refArr == ArrOf(h, me.raw)
         IN  [arr |-> [i \in 1..Len(refArr) |-> child(me, refArr[i])], warn |-> 0]

---------------------------------------------------------------------------
(* Enumeration.  A callback is modelled by what it answers: "cont" at      *)
(* every call, except "stop" (false, nil) or "err" (an error) at call      *)
(* number cb.at.                                                           *)


RECURSIVE LessFrom(_, _, _)
\* a < b for Go strings that agree before rune i: byte-wise, a proper
\* prefix first
LessFrom(a, b, i) ==
    IF i > Len(a) THEN i <= Len(b)
    ELSE IF i > Len(b) THEN FALSE
    ELSE IF Ch(a, i) = Ch(b, i) THEN LessFrom(a, b, i + 1)
    ELSE ByteOf(Ch(a, i)) < ByteOf(Ch(b, i))

StringLess(a, b) == LessFrom(a, b, 1)

RECURSIVE InsertSorted(_, _)
InsertSorted(sorted, k) ==
    IF sorted = <<>> THEN <<k>>
    ELSE IF StringLess(k, Head(sorted)) THEN <<k>> \o sorted
    ELSE <<Head(sorted)>> \o InsertSorted(Tail(sorted), k)

RECURSIVE SortStrings(_)
\* sort.Strings
SortStrings(keys) ==
    IF keys = <<>> THEN <<>>
    ELSE InsertSorted(SortStrings(SubSeq(keys, 1, Len(keys) - 1)), keys[Len(keys)])

CallbackAnswer(cb, nth) == IF cb.at = nth THEN cb.act ELSE "cont"

RECURSIVE EachLoop(_, _, _, _, _)
\* the loop of EachMap and EachArray from entry i on: calls holds the
\* arguments of the calls made to the callback
EachLoop(me, items, i, cb, calls) ==
    IF i > Len(items) THEN [calls |-> calls, err |-> "none"]
    ELSE LET made == Append(calls, [key |-> items[i].k, elm |-> child(me, items[i].v)])
             ans  == CallbackAnswer(cb, i)
         IN  CASE ans = "err"  -> [calls |-> made, err |-> "callback"]
               [] ans = "stop" -> [calls |-> made, err |-> "none"]
               [] OTHER        -> EachLoop(me, items, i + 1, cb, made)

\* the keys of EachMap, had it not sorted them
EachMapKeysAsRanged(ranged) == ranged

\* the keys as EachMap orders them, from the order the range yielded them
EachMapKeys(ranged) == SortStrings(ranged)

\* JSONElement.EachMap: one outcome per order the range may yield
EachMap(h, me, cb) ==
    IF IsNil(me) THEN {[calls |-> <<>>, err |-> "null"]}
    ELSE IF me.raw.t # "map" THEN {[calls |-> <<>>, err |-> "cast"]}
    ELSE LET typedObj == h[me.raw.a].m
         IN  {LET keys == EachMapKeys(ranged)
                  items == [i \in 1..Len(keys) |-> [k |-> keys[i], v |-> typedObj[keys[i]]]]
              IN  EachLoop(me, items, 1, cb, <<>>)
              : ranged \in Perms(DOMAIN typedObj)}

\* JSONElement.EachArray
EachArray(h, me, cb) ==
    IF IsNil(me) THEN [calls |-> <<>>, err |-> "null"]
    ELSE IF ~IsArray(me) THEN [calls |-> <<>>, err |-> "cast"]
    ELSE LET refArr == ArrOf(h, me.raw)
             items == [i \in 1..Len(refArr) |-> [k |-> i - 1, v |-> refArr[i]]]
         IN  EachLoop(me, items, 1, cb, <<>>)

RECURSIVE walk(_, _, _, _, _), WalkLoop(_, _, _, _, _, _)
RECURSIVE WalkLoopDeaf(_, _, _, _, _, _), WalkLoopSameParents(_, _, _, _, _, _)

\* the loops of walk, had they gone on after a walk below returned false
WalkLoopDeaf(h, argParents, items, i, cb, calls) ==
    IF i > Len(items) THEN {[calls |-> calls, cont |-> TRUE, err |-> "none"]}
    ELSE LET made == Append(calls, [parents |-> argParents, key |-> items[i].k,
                                    val |-> items[i].v])
             ans  == CallbackAnswer(cb, Len(made))
         IN  CASE ans = "err"  -> {[calls |-> made, cont |-> FALSE, err |-> "callback"]}
               [] ans = "stop" -> {[calls |-> made, cont |-> FALSE, err |-> "none"]}
               [] OTHER ->
                    UNION {IF r.err # "none" THEN {r}
                           ELSE WalkLoopDeaf(h, argParents, items, i + 1, cb, r.calls)
                           : r \in walk(h, Append(argParents, items[i].k), items[i].v, cb, made)}

\* the loops of walk, had they passed argParents on as it is
WalkLoopSameParents(h, argParents, items, i, cb, calls) ==
    IF i > Len(items) THEN {[calls |-> calls, cont |-> TRUE, err |-> "none"]}
    ELSE LET made == Append(calls, [parents |-> argParents, key |-> items[i].k,
                                    val |-> items[i].v])
             ans  == CallbackAnswer(cb, Len(made))
         IN  CASE ans = "err"  -> {[calls |-> made, cont |-> FALSE, err |-> "callback"]}
               [] ans = "stop" -> {[calls |-> made, cont |-> FALSE, err |-> "none"]}
               [] OTHER ->
                    UNION {IF ~r.cont THEN {r}
                           ELSE WalkLoopSameParents(h, argParents, items, i + 1, cb, r.calls)
                           : r \in walk(h, argParents, items[i].v, cb, made)}

\* the loops of walk from entry i on: the callback is called with the
\* parents, the key and the value, then the value is walked with the key
\* added to the parents; calls holds the arguments of the calls made so far,
\* and the callback answers by the number of the call
WalkLoop(h, argParents, items, i, cb, calls) ==
    IF i > Len(items) THEN {[calls |-> calls, cont |-> TRUE, err |-> "none"]}
    ELSE LET made == Append(calls, [parents |-> argParents, key |-> items[i].k,
                                    val |-> items[i].v])
             ans  == CallbackAnswer(cb, Len(made))
         IN  CASE ans = "err"  -> {[calls |-> made, cont |-> FALSE, err |-> "callback"]}
               [] ans = "stop" -> {[calls |-> made, cont |-> FALSE, err |-> "none"]}
               [] OTHER ->
                    UNION {IF ~r.cont THEN {r}
                           ELSE WalkLoop(h, argParents, items, i + 1, cb, r.calls)
                           : r \in walk(h, Append(argParents, items[i].k), items[i].v, cb, made)}

\* walk: an array is gone through by index, a map in the order the range
\* yields its keys (one outcome per order), any other value not at all
walk(h, argParents, argVal, cb, calls) ==
    CASE argVal.t \in {"slice", "parr"} ->
            LET refArr == ArrOf(h, argVal)
                items  == [i \in 1..Len(refArr) |-> [k |-> IntV(i - 1), v |-> refArr[i]]]
            IN  WalkLoop(h, argParents, items, 1, cb, calls)
      [] argVal.t = "map" ->
            LET objMap == h[argVal.a].m
            IN  UNION {WalkLoop(h, argParents,
                                [i \in 1..Len(ks) |-> [k |-> StrV(ks[i]), v |-> objMap[ks[i]]]],
                                1, cb, calls)
                       : ks \in Perms(DOMAIN objMap)}
      [] OTHER -> {[calls |-> calls, cont |-> TRUE, err |-> "none"]}

\* JSONElement.Walk: the outcomes of walking me.raw from no parents
Walk(h, me, cb) ==
    {[calls |-> r.calls, err |-> r.err] : r \in walk(h, <<>>, me.raw, cb, <<>>)}

---------------------------------------------------------------------------
(* Mutation.  An argument is a Go value or a JSONElement, [t |-> "elem"].  *)
(* A result holds the heap after the call, the error kind ("none", "null", *)
(* "readonly", "type", "badarg"), the diagnostics and whether the call     *)
(* panicked.                                                               *)

Elem(e) == [t |-> "elem", e |-> e]

RECURSIVE elm2Raw(_)
elm2Raw(arg) == IF arg.t = "elem" THEN elm2Raw(Raw(arg.e)) ELSE arg

updateElms2Raws(arg) == [i \in 1..Len(arg) |-> elm2Raw(arg[i])]

Ok(h, warn) == [h |-> h, err |-> "none", warn |-> warn, fatal |-> 0, panic |-> FALSE]

\* typedObj[key] = val
MapStore(h, a, key, val) == [h EXCEPT ![a] = MapCell(Upd(h[a].m, key, val))]

\* Put, had it stored the array of several values and not a pointer to it
PutArrayByValue(h, me, key, val1, vals) ==
    IF IsNil(me) THEN Errorf(me, h, "null")
    ELSE IF me.Readonly THEN Errorf(me, h, "readonly")
    ELSE IF me.raw.t # "map" THEN Errorf(me, h, "type")
    ELSE IF Len(vals) = 0 THEN Ok(MapStore(h, me.raw.a, key, elm2Raw(val1)), 0)
    ELSE Ok(MapStore(h, me.raw.a, key, Slice(updateElms2Raws(<<val1>> \o vals))), 0)

Put(h, me, key, val1, vals) ==
    IF IsNil(me) THEN Errorf(me, h, "null")
    ELSE IF me.Readonly THEN Errorf(me, h, "readonly")
    ELSE IF me.raw.t # "map" THEN Errorf(me, h, "type")
    ELSE IF Len(vals) = 0 THEN Ok(MapStore(h, me.raw.a, key, elm2Raw(val1)), 0)
    ELSE LET arr == updateElms2Raws(<<val1>> \o vals)
             al  == Alloc(h, ArrCell(arr))
         IN  Ok(MapStore(al.h, me.raw.a, key, PArr(al.a)), 0)

\* Append, had it tested the read-only flag after appending
AppendThenCheck(h, me, val1, vals) ==
    IF IsNil(me) THEN Errorf(me, h, "null")
    ELSE IF me.raw.t # "parr" THEN Errorf(me, h, "type")
    ELSE LET a  == me.raw.a
             h2 == [h EXCEPT ![a] = ArrCell(updateElms2Raws((h[a].s \o <<val1>>) \o vals))]
         IN  IF me.Readonly THEN Errorf(me, h2, "readonly") ELSE Ok(h2, 0)

\* Append, had it forgotten the values after the first
AppendValsFirstOnly(h, me, val1, vals) ==
    IF IsNil(me) THEN Errorf(me, h, "null")
    ELSE IF me.Readonly THEN Errorf(me, h, "readonly")
    ELSE IF me.raw.t # "parr" THEN Errorf(me, h, "type")
    ELSE LET a == me.raw.a
         IN  Ok([h EXCEPT ![a] = ArrCell(updateElms2Raws(h[a].s \o <<val1>>))], 0)

\* JSONElement.Append
AppendVals(h, me, val1, vals) ==
    IF IsNil(me) THEN Errorf(me, h, "null")
    ELSE IF me.Readonly THEN Errorf(me, h, "readonly")
    ELSE IF me.raw.t # "parr" THEN Errorf(me, h, "type")
    ELSE LET a == me.raw.a
         IN  Ok([h EXCEPT ![a] = ArrCell(updateElms2Raws((h[a].s \o <<val1>>) \o vals))], 0)

\* PutEmptyMap and PutEmptyArray, had they returned an Element wrapping a
\* second empty container instead of the one they stored
PutEmptyDetached(h, me, key, cell, ref) ==
    IF IsNil(me) THEN Errorf(me, h, "null")
    ELSE IF me.Readonly THEN Errorf(me, h, "readonly")
    ELSE LET al == Alloc(h, cell)
             r  == Put(al.h, me, key, [t |-> ref, a |-> al.a], <<>>)
         IN  IF r.err # "none"
             THEN [h |-> h, err |-> r.err, warn |-> r.warn + Fatal(me).warn,
                   fatal |-> r.fatal + Fatal(me).fatal, panic |-> FALSE]
             ELSE LET al2 == Alloc(r.h, cell)
                  IN  [h |-> al2.h, err |-> "none", warn |-> 0, fatal |-> 0,
                       panic |-> FALSE, res |-> child(me, [t |-> ref, a |-> al2.a])]

\* what PutEmptyMap and PutEmptyArray do with the container cell they made;
\* the cell stays unallocated when the call fails, which no caller can see
PutEmpty(h, me, key, cell, ref) ==
    IF IsNil(me) THEN Errorf(me, h, "null")
    ELSE IF me.Readonly THEN Errorf(me, h, "readonly")
    ELSE LET al == Alloc(h, cell)
             r  == Put(al.h, me, key, [t |-> ref, a |-> al.a], <<>>)
         IN  IF r.err # "none"
             THEN [h |-> h, err |-> r.err, warn |-> r.warn + Fatal(me).warn,
                   fatal |-> r.fatal + Fatal(me).fatal, panic |-> FALSE]
             ELSE LET sel == SelectByKey(r.h, me, key)
                  IN  [h |-> r.h, err |-> "none", warn |-> sel.warn, fatal |-> 0,
                       panic |-> FALSE, res |-> sel.res]

PutEmptyMap(h, me, key) == PutEmpty(h, me, key, MapCell(EmptyFn), "map")

PutEmptyArray(h, me, key) == PutEmpty(h, me, key, ArrCell(<<>>), "parr")

\* DeleteByKey, had it emptied the container it takes out of the map
DeleteByKeyClearing(h, me, key) ==
    IF IsNil(me) THEN Errorf(me, h, "null")
    ELSE IF me.Readonly THEN Errorf(me, h, "readonly")
    ELSE IF me.raw.t # "map" THEN Errorf(me, h, "type")
    ELSE LET typedObj == h[me.raw.a].m
         IN  IF key \notin DOMAIN typedObj THEN Ok(h, Warn(me))
             ELSE LET gone == typedObj[key]
                      h2   == [h EXCEPT ![me.raw.a] =
                                 MapCell([k \in (DOMAIN typedObj) \ {key} |-> typedObj[k]])]
                  IN  Ok(CASE gone.t = "map"  -> [h2 EXCEPT ![gone.a] = MapCell(EmptyFn)]
                           [] gone.t = "parr" -> [h2 EXCEPT ![gone.a] = ArrCell(<<>>)]
                           [] OTHER           -> h2, 0)

DeleteByKey(h, me, key) ==
    IF IsNil(me) THEN Errorf(me, h, "null")
    ELSE IF me.Readonly THEN Errorf(me, h, "readonly")
    ELSE IF me.raw.t # "map" THEN Errorf(me, h, "type")
    ELSE LET typedObj == h[me.raw.a].m
         IN  IF key \notin DOMAIN typedObj THEN Ok(h, Warn(me))
             ELSE Ok([h EXCEPT ![me.raw.a] =
                        MapCell([k \in (DOMAIN typedObj) \ {key} |-> typedObj[k]])], 0)

\* remove, had it cut out the entry after s
removeNext(slice, s) == SubSeq(slice, 1, s + 1) \o SubSeq(slice, s + 3, Len(slice))

\* append(slice[:s], slice[s+1:]...)
remove(slice, s) == SubSeq(slice, 1, s) \o SubSeq(slice, s + 2, Len(slice))

\* remove with a negative pos slices out of range: a panic
DeleteByPos(h, me, pos) ==
    IF IsNil(me) THEN Errorf(me, h, "null")
    ELSE IF me.Readonly THEN Errorf(me, h, "readonly")
    ELSE IF me.raw.t # "parr" THEN Errorf(me, h, "type")
    ELSE LET refArr == h[me.raw.a].s
             containerLen == Len(refArr)
         IN  IF pos >= containerLen THEN Ok(h, Warn(me))
             ELSE IF pos < 0
             THEN [h |-> h, err |-> "none", warn |-> 0, fatal |-> 0, panic |-> TRUE]
             ELSE Ok([h EXCEPT ![me.raw.a] = ArrCell(remove(refArr, pos))], 0)

\* JSONElement.Delete: an int deletes by position, a string by key
Delete(h, me, arg) ==
    IF IsNil(me) THEN Errorf(me, h, "null")
    ELSE CASE arg.t = "int"    -> DeleteByPos(h, me, arg.n)
           [] arg.t = "string" -> DeleteByKey(h, me, arg.s)
           [] OTHER            -> Errorf(me, h, "badarg")

---------------------------------------------------------------------------
(* The JSON value a Go value stands for: an array of either type is an     *)
(* Array, an int or a float64 the Number of its value (zero has no sign).  *)

RECURSIVE JsonTree(_, _)
JsonTree(h, v) ==
    CASE v.t \in {"int", "float64"} ->
            LET f == IF v.t = "int" THEN FloatV(v.n) ELSE v
            IN  [t |-> "number", neg |-> f.neg /\ f.m # 0, m |-> f.m, e |-> f.e]
      [] v.t \in {"slice", "parr"} ->
            LET s == ArrOf(h, v)
            IN  [t |-> "array", s |-> [i \in 1..Len(s) |-> JsonTree(h, s[i])]]
      [] v.t = "map" ->
            LET m == h[v.a].m
            IN  [t |-> "object", m |-> [k \in DOMAIN m |-> JsonTree(h, m[k])]]
      [] OTHER -> v

---------------------------------------------------------------------------
(* The program: a caller that holds the root Element and one more Element, *)
(* sub, the result of its latest Select or PutEmpty call, and makes up to  *)
(* MaxOps calls.  last records the latest call and what it returned.       *)

Slots == {"root", "sub"}

NoCall ==
    [op |-> "none", slot |-> "root", me |-> NoElem, args |-> <<>>, err |-> "none",
     warn |-> 0, fatal |-> 0, panic |-> FALSE, out |-> Nil]

\* the text TestReadonly1 parses, cut down
DocText == "{\"a\": {\"b\": 1}, \"b\": [2, {\"a\": 3}]}"

KeySet == {"a", "b"}

\* the roots a caller starts from, each with the WarnHandler the tests set
Roots ==
    {NewAsMap(<<>>), NewAsArray(<<>>),
     [h |-> NewByString(<<>>, DocText).h, me |-> NewByString(<<>>, DocText).me]}

Init ==
    \E r \in Roots :
        /\ heap = r.h
        /\ elems = [s \in Slots |->
                      IF s = "root" THEN [r.me EXCEPT !.WarnHandler = TRUE] ELSE NoElem]
        /\ last = NoCall
        /\ ops = 0

Live(s) == elems[s] # NoElem

Can(s) == ops < MaxOps /\ ~last.panic /\ Live(s)

RECURSIVE Refs(_)
\* the addresses value v holds: its own for a map or a pointer to an array,
\* those of its entries for an array held by value
Refs(v) ==
    CASE v.t \in {"map", "parr"} -> {v.a}
      [] v.t = "slice" -> UNION {Refs(v.s[i]) : i \in 1..Len(v.s)}
      [] OTHER -> {}

\* the addresses the entries of the cell at address a hold
CellRefs(h, a) ==
    IF h[a].kind = "map" THEN UNION {Refs(h[a].m[k]) : k \in DOMAIN h[a].m}
    ELSE UNION {Refs(h[a].s[i]) : i \in 1..Len(h[a].s)}

RECURSIVE ReachFrom(_, _, _)
ReachFrom(h, new, seen) ==
    IF new \subseteq seen THEN seen
    ELSE ReachFrom(h, UNION {CellRefs(h, a) : a \in new \ seen}, seen \cup new)

\* the addresses of the cells reachable from value v (a container may hold
\* itself: Put and Append store what they are given)
Reach(h, v) == ReachFrom(h, Refs(v), {})

Called(op, s, args, r, out) ==
    /\ last' = [op |-> op, slot |-> s, me |-> elems[s], args |-> args, err |-> r.err,
                warn |-> r.warn, fatal |-> r.fatal, panic |-> r.panic, out |-> out]
    /\ ops' = ops + 1

\* the values a caller passes: Go values, or the Element it holds as sub
\* (a nil Element while it holds none)
ArgVals == {IntV(1), Elem(elems["sub"])}

PutAct(s, key, val1, vals) ==
    /\ Can(s)
    /\ LET r == Put(heap, elems[s], key, val1, vals)
       IN  heap' = r.h /\ Called("Put", s, <<StrV(key), val1>> \o vals, r, Nil)
    /\ UNCHANGED elems

AppendAct(s, val1, vals) ==
    /\ Can(s)
    /\ LET r == AppendVals(heap, elems[s], val1, vals)
       IN  heap' = r.h /\ Called("Append", s, <<val1>> \o vals, r, Nil)
    /\ UNCHANGED elems

\* m1, err := root.PutEmptyMap("m1"): the caller keeps the Element it got
PutEmptyMapAct(s, key) ==
    /\ Can(s)
    /\ LET r == PutEmptyMap(heap, elems[s], key)
       IN  /\ heap' = r.h
           /\ elems' = IF r.err = "none" THEN [elems EXCEPT !["sub"] = r.res] ELSE elems
           /\ Called("PutEmptyMap", s, <<StrV(key)>>, r, Nil)

PutEmptyArrayAct(s, key) ==
    /\ Can(s)
    /\ LET r == PutEmptyArray(heap, elems[s], key)
       IN  /\ heap' = r.h
           /\ elems' = IF r.err = "none" THEN [elems EXCEPT !["sub"] = r.res] ELSE elems
           /\ Called("PutEmptyArray", s, <<StrV(key)>>, r, Nil)

DeleteByKeyAct(s, key) ==
    /\ Can(s)
    /\ LET r == DeleteByKey(heap, elems[s], key)
       IN  heap' = r.h /\ Called("DeleteByKey", s, <<StrV(key)>>, r, Nil)
    /\ UNCHANGED elems

DeleteByPosAct(s, pos) ==
    /\ Can(s)
    /\ LET r == DeleteByPos(heap, elems[s], pos)
       IN  heap' = r.h /\ Called("DeleteByPos", s, <<IntV(pos)>>, r, Nil)
    /\ UNCHANGED elems

DeleteAct(s, arg) ==
    /\ Can(s)
    /\ LET r == Delete(heap, elems[s], arg)
       IN  heap' = r.h /\ Called("Delete", s, <<arg>>, r, Nil)
    /\ UNCHANGED elems

\* root.Readonly = true
SetReadonlyAct(s) ==
    /\ Can(s)
    /\ ~elems[s].Readonly
    /\ elems' = [elems EXCEPT ![s].Readonly = TRUE]
    /\ last' = [NoCall EXCEPT !.op = "SetReadonly", !.slot = s, !.me = elems[s]]
    /\ ops' = ops + 1
    /\ UNCHANGED heap

\* sub := s.Select(key1, keys...)
SelectAct(s, key1, keys) ==
    /\ Can(s)
    /\ LET r == Select(heap, elems[s], key1, keys)
       IN  /\ elems' = [elems EXCEPT !["sub"] = r.res]
           /\ Called("Select", s, <<key1>> \o keys,
                     [err |-> "none", warn |-> r.warn, fatal |-> 0, panic |-> r.panic],
                     r.res)
    /\ UNCHANGED heap

\* the paths the caller selects
Paths == {<<StrV("a")>>, <<StrV("b")>>, <<StrV("b"), IntV(1)>>, <<IntV(0)>>}

\* the integers the caller deletes at
Positions == {0 - 1, 0, 1}

Next ==
    \E s \in Slots :
        \/ \E key \in KeySet, v \in ArgVals : PutAct(s, key, v, <<>>)
        \/ PutAct(s, "a", IntV(1), <<StrV("x")>>)
        \/ \E v \in ArgVals : AppendAct(s, v, <<>>)
        \/ AppendAct(s, IntV(1), <<StrV("x"), IntV(2)>>)
        \/ PutEmptyMapAct(s, "a")
        \/ PutEmptyArrayAct(s, "a")
        \/ \E key \in KeySet : DeleteByKeyAct(s, key)
        \/ \E pos \in Positions : DeleteByPosAct(s, pos)
        \/ \E arg \in {IntV(0), StrV("a"), FloatV(0)} : DeleteAct(s, arg)
        \/ SetReadonlyAct(s)
        \/ \E p \in Paths : SelectAct(s, Head(p), Tail(p))

Spec == Init /\ [][Next]_vars

---------------------------------------------------------------------------
(* The reading program: a caller that parses or builds one tree and then   *)
(* makes up to MaxNavOps navigation calls on the root and on sub, the      *)
(* Element its latest Select, SelectByKey or SelectByPos returned.         *)

MaxNavOps == 2

\* keys in an order that is not the sorted one
DocKeys == "{\"b\": 1, \"ab\": 2, \"B\": 3}"

\* a map in a map, an array, a string and a null, as the texts of
\* TestReadonly2
DocNested == "{\"m1\": {\"arr\": [10, 20, 30]}, \"s\": \"x\", \"n\": null}"

\* an array holding a number, a null, a boolean and a string with a double
\* quote and a backslash in it
DocArray == "[1, null, true, \"q\\\"\\\\\"]"

\* numbers with a fraction and an exponent, a negative zero, and a string
\* with escapes, between white space of every kind
DocNumbers == "[1000000,\t1.5e-7, -0,\r\n\"a\\tb\\u0041\\/\"]"

NavTexts == {DocKeys, DocNested, DocArray, DocNumbers, "{}", "null", "\"x\""}

\* the tree TestWrite1 builds, cut down: root.PutEmptyMap("m1") and
\* m1.Put("arr", 1, 2, "a")
Built ==
    LET r0 == NewAsMap(<<>>)
        r1 == PutEmptyMap(r0.h, r0.me, "m1")
        r2 == Put(r1.h, r1.res, "arr", IntV(1), <<IntV(2), StrV("a")>>)
    IN  [h |-> r2.h, me |-> r0.me]

NavRoots ==
    {[h |-> NewByString(<<>>, t).h, me |-> NewByString(<<>>, t).me] : t \in NavTexts}
        \cup {Built}

InitNav ==
    \E r \in NavRoots :
        /\ heap = r.h
        /\ elems = [s \in Slots |->
                      IF s = "root" THEN [r.me EXCEPT !.WarnHandler = TRUE] ELSE NoElem]
        /\ last = NoCall
        /\ ops = 0

CanNav(s) == ops < MaxNavOps /\ ~last.panic /\ Live(s)

\* a call that leaves the tree and the Elements held as they are
Read(op, s, args, warn, panic, out) ==
    /\ last' = [op |-> op, slot |-> s, me |-> elems[s], args |-> args, err |-> "none",
                warn |-> warn, fatal |-> 0, panic |-> panic, out |-> out]
    /\ ops' = ops + 1
    /\ UNCHANGED heap

\* a []string argument
StrArr(s) == [t |-> "[]string", s |-> s]

\* sub := s.Select(key1, keys...)
NavSelectAct(s, key1, keys) ==
    /\ CanNav(s)
    /\ LET r == Select(heap, elems[s], key1, keys)
       IN  /\ elems' = [elems EXCEPT !["sub"] = r.res]
           /\ Read("Select", s, <<key1>> \o keys, r.warn, r.panic, r.res)

\* sub := s.SelectByKey(key)
SelectByKeyAct(s, key) ==
    /\ CanNav(s)
    /\ LET r == SelectByKey(heap, elems[s], key)
       IN  /\ elems' = [elems EXCEPT !["sub"] = r.res]
           /\ Read("SelectByKey", s, <<StrV(key)>>, r.warn, r.panic, r.res)

\* sub := s.SelectByPos(pos)
SelectByPosAct(s, pos) ==
    /\ CanNav(s)
    /\ LET r == SelectByPos(heap, elems[s], pos)
       IN  /\ elems' = [elems EXCEPT !["sub"] = r.res]
           /\ Read("SelectByPos", s, <<IntV(pos)>>, r.warn, r.panic, r.res)

CountAct(s) ==
    /\ CanNav(s)
    /\ LET r == Count(heap, elems[s])
       IN  Read("Count", s, <<>>, r.warn, FALSE, IntV(r.n))
    /\ UNCHANGED elems

\* Keys, in one of the orders the range may yield
KeysAct(s) ==
    /\ CanNav(s)
    /\ LET r == Keys(heap, elems[s])
       IN  \E ks \in r.keys :
              Read("Keys", s, <<>>, r.warn, FALSE, [t |-> "keys", keys |-> ks])
    /\ UNCHANGED elems

EachMapAct(s, cb) ==
    /\ CanNav(s)
    /\ \E o \in EachMap(heap, elems[s], cb) :
          Read("EachMap", s, <<cb>>, 0, FALSE,
               [t |-> "each", calls |-> o.calls, err |-> o.err])
    /\ UNCHANGED elems

EachArrayAct(s, cb) ==
    /\ CanNav(s)
    /\ LET o == EachArray(heap, elems[s], cb)
       IN  Read("EachArray", s, <<cb>>, 0, FALSE,
                [t |-> "each", calls |-> o.calls, err |-> o.err])
    /\ UNCHANGED elems

AsArrayAct(s) ==
    /\ CanNav(s)
    /\ LET r == AsArray(heap, elems[s])
       IN  Read("AsArray", s, <<>>, r.warn, FALSE, [t |-> "elems", arr |-> r.arr])
    /\ UNCHANGED elems

WalkAct(s, cb) ==
    /\ CanNav(s)
    /\ \E o \in Walk(heap, elems[s], cb) :
          Read("Walk", s, <<cb>>, 0, FALSE,
               [t |-> "each", calls |-> o.calls, err |-> o.err])
    /\ UNCHANGED elems

\* String, in one of the texts the ranges over the maps may give
StringAct(s) ==
    /\ CanNav(s)
    /\ \E text \in String(heap, elems[s]) :
          Read("String", s, <<>>, 0, FALSE, StrV(text))
    /\ UNCHANGED elems

\* the paths the reader selects: keys and positions, and the same paths with
\* a leading []string
NavPaths ==
    {<<StrV("m1")>>, <<StrV("m1"), StrV("arr")>>, <<StrV("m1"), StrV("missing")>>,
     <<StrV("m1"), StrV("arr"), IntV(2)>>, <<StrV("m1"), StrV("arr"), IntV(3)>>,
     <<StrV("m1"), StrV("arr"), IntV(0 - 1)>>,
     <<StrV("n"), StrV("arr"), IntV(0)>>, <<IntV(3)>>,
     <<StrArr(<<"m1", "arr">>), IntV(2)>>, <<StrArr(<<"m1">>), StrV("arr"), IntV(1)>>,
     <<StrArr(<<"m1", "arr">>)>>, <<StrArr(<<>>)>>, <<StrArr(<<>>), StrV("s")>>}

NavKeys == {"m1", "arr", "missing", "B"}

NavPositions == {0 - 1, 0, 2, 3}

\* the visitors: one that goes on, one that stops at its second call, one
\* that fails at its first
Callbacks == {[at |-> 0, act |-> "cont"], [at |-> 2, act |-> "stop"], [at |-> 1, act |-> "err"]}

\* the visitors of Walk: those, and one that fails at its third call
WalkCallbacks == Callbacks \cup {[at |-> 3, act |-> "err"]}

NextNav ==
    \E s \in Slots :
        \/ \E p \in NavPaths : NavSelectAct(s, Head(p), Tail(p))
        \/ \E key \in NavKeys : SelectByKeyAct(s, key)
        \/ \E pos \in NavPositions : SelectByPosAct(s, pos)
        \/ CountAct(s)
        \/ KeysAct(s)
        \/ \E cb \in Callbacks : EachMapAct(s, cb)
        \/ \E cb \in Callbacks : EachArrayAct(s, cb)
        \/ AsArrayAct(s)
        \/ \E cb \in WalkCallbacks : WalkAct(s, cb)
        \/ StringAct(s)

SpecNav == InitNav /\ [][NextNav]_vars

---------------------------------------------------------------------------
(* Claims *)

\* the Element the latest call was made through
Me == last.me

WriteOps == {"Put", "Append", "Delete", "DeleteByKey", "DeleteByPos"}

\* a value with the cells it reaches
Graph(h, v) == [raw |-> v, cells |-> [a \in Reach(h, v) |-> h[a]]]

\* what an Element shows of the value it wraps
View(h, e) == [count |-> Count(h, e).n, tree |-> Graph(h, e.raw)]

\* C1 as stated: every Put, Append, Delete, DeleteByKey or DeleteByPos call
\* through a read-only Element fails with the read-only error (Delete being
\* given an int or a string, as the claim's calls are).
C1_Original ==
    (/\ last.op \in WriteOps /\ Me.Readonly
     /\ last.op = "Delete" => last.args[1].t \in {"int", "string"})
    => last.err = "readonly"

C1_Step ==
    LET me == elems[last'.slot]
    IN  /\ (last'.op = "Select" /\ ~last'.panic /\ me.Readonly) =>
              /\ elems'["sub"].Readonly
              /\ elems'["sub"].raw =
                    Select(heap, [me EXCEPT !.Readonly = FALSE],
                           Head(last'.args), Tail(last'.args)).res.raw
        /\ (last'.op \in WriteOps /\ me.Readonly) =>
              /\ last'.err # "none" /\ ~last'.panic
              /\ heap' = heap /\ elems' = elems
              /\ me.raw = Nil => last'.err = "null"
              /\ (me.raw # Nil /\ last'.op = "Delete"
                    /\ last'.args[1].t \notin {"int", "string"}) => last'.err = "badarg"
              /\ (me.raw # Nil /\ (last'.op = "Delete"
                    => last'.args[1].t \in {"int", "string"})) => last'.err = "readonly"

\* C1, amended: a Select through a read-only Element gives a read-only
\* Element wrapping the value it would wrap without the flag, and every
\* Put, Append, Delete, DeleteByKey or DeleteByPos call through a read-only
\* Element fails and changes nothing: with the read-only error when the
\* Element wraps a non-nil value (and Delete is given an int or a string),
\* with the null-state error when it wraps nil, and with the argument-type
\* error when Delete is given another type.
C1_ReadonlyBlocks == [][C1_Step]_vars

\* a write through sub, selected from a read-only Element, was refused
C1_Witness ==
    /\ last.op \in WriteOps /\ last.slot = "sub"
    /\ Me.Readonly /\ Me.Level > 0
    /\ last.err = "readonly"

\* the paths from the root by which the claims read the tree
ObsPaths == {<<StrV("a")>>, <<StrV("b")>>, <<StrV("a"), StrV("a")>>, <<StrV("a"), StrV("b")>>,
             <<StrV("b"), StrV("a")>>, <<StrV("b"), IntV(1)>>}

FromRoot(h, es, p) == Select(h, es["root"], Head(p), Tail(p)).res

IsContainerRef(v) == v.t \in {"map", "parr"}

\* path p from the root leads to container c and not through it (a
\* container may hold itself)
LeadsTo(h, es, p, c) ==
    /\ FromRoot(h, es, p).raw = c
    /\ \A n \in 1..(Len(p) - 1) : FromRoot(h, es, SubSeq(p, 1, n)).raw # c

C2_Step ==
    LET s == last'.slot
        c == elems[s].raw
    IN  /\ (/\ last'.op \in WriteOps /\ last'.err = "none" /\ ~last'.panic
            /\ IsContainerRef(c)) =>
              /\ \A j \in Slots :
                    (Live(j) /\ elems[j].raw = c) =>
                        View(heap', elems'[j]) = View(heap', elems'[s])
              /\ \A p \in ObsPaths :
                    LeadsTo(heap, elems, p, c) =>
                        /\ View(heap', FromRoot(heap', elems', p)) = View(heap', elems'[s])
                        /\ last'.op = "Append" =>
                              View(heap', FromRoot(heap', elems', p)).count
                                 = View(heap, FromRoot(heap, elems, p)).count + Len(last'.args)
        /\ (last'.op \in {"PutEmptyMap", "PutEmptyArray"} /\ last'.err = "none") =>
              /\ IsContainerRef(elems'["sub"].raw)
              /\ elems'["sub"].raw = SelectByKey(heap', elems[s], last'.args[1].s).res.raw
              /\ View(heap', elems'["sub"]).count = 0

\* C2: a successful Put, Append or Delete through an Element wrapping a map
\* or an editable array is seen alike through that Element, through every
\* other Element wrapping the same container and through a Select from the
\* root along a path that led to the container first at its end (an Append
\* adds its values to the count read from the root); and PutEmptyMap and PutEmptyArray return an Element
\* wrapping the very container that a SelectByKey of the key gives.
C2_ReferenceSemantics == [][C2_Step]_vars

\* an Append through sub changed an array that the root reaches
C2_Witness ==
    /\ last.op = "Append" /\ last.err = "none" /\ last.slot = "sub"
    /\ \E p \in ObsPaths : /\ FromRoot(heap, elems, p).raw = elems["sub"].raw
                           /\ View(heap, FromRoot(heap, elems, p)).count > 0

\* C3 as stated: Append through a non-read-only Element wrapping an array,
\* however the array came into the tree, returns no error.
C3_Original ==
    (last.op = "Append" /\ IsArray(Me) /\ ~Me.Readonly) => last.err = "none"

C3_Step ==
    LET me == elems[last'.slot]
        raws == updateElms2Raws(last'.args)
    IN  (last'.op = "Append" /\ IsArray(me) /\ ~me.Readonly) =>
            /\ me.raw.t = "parr" =>
                  /\ last'.err = "none" /\ ~last'.panic
                  /\ heap'[me.raw.a].s = heap[me.raw.a].s \o raws
                  /\ Count(heap', me).n = Count(heap, me).n + Len(last'.args)
            /\ me.raw.t = "slice" =>
                  /\ last'.err = "type"
                  /\ heap' = heap

\* C3, amended: Append(a, b, c) through a non-read-only Element wrapping an
\* editable array of length n (from NewAsArray, a variadic Put or
\* PutEmptyArray) returns no error and leaves an array of length n+3 with
\* a, b, c at n, n+1, n+2 and the first n entries as they were; through an
\* Element wrapping an array that came from parsing JSON text it returns the
\* not-editable type error and changes nothing.
C3_AppendAtEnd == [][C3_Step]_vars

\* three values were appended to an array that held something
C3_Witness ==
    /\ last.op = "Append" /\ last.err = "none" /\ Len(last.args) = 3
    /\ Count(heap, Me).n > 3

\* the visitor that never stops or fails
GoOn == [at |-> 0, act |-> "cont"]

IsScalar(v) == v.t \in {"bool", "int", "float64", "string"}

RECURSIVE Chain(_, _, _)
\* SelectByKey or SelectByPos applied key by key along a path of strings and
\* integers, with the warnings added up
Chain(h, me, path) ==
    IF path = <<>> THEN [res |-> me, warn |-> 0, panic |-> FALSE]
    ELSE LET k == Head(path)
             r == IF k.t = "int" THEN SelectByPos(h, me, k.n) ELSE SelectByKey(h, me, k.s)
         IN  IF r.panic THEN [res |-> r.res, warn |-> r.warn, panic |-> TRUE]
             ELSE LET c == Chain(h, r.res, Tail(path))
                  IN  [res |-> c.res, warn |-> r.warn + c.warn, panic |-> c.panic]

\* C4: parsing the text String() gives for a value (other than a bare nil)
\* succeeds and yields a tree equal to the value, nulls inside arrays and
\* objects and strings holding double quotes or backslashes included.
C4_RoundTrip ==
    (last.op = "String" /\ ~IsNil(Me)) =>
        LET r == NewByString(<<>>, last.out.s)
        IN  r.ok /\ JsonTree(r.h, r.me.raw) = JsonTree(heap, Me.raw)

\* C5: EachMap on a map with a visitor that never stops or fails calls the
\* visitor once for each key Keys() returns and for no other, in strictly
\* ascending byte-wise order of the keys and with the value stored under
\* the key, whatever order the range over the map yields.
C5_SortedVisit ==
    (last.op = "EachMap" /\ IsMap(Me) /\ last.args[1] = GoOn) =>
        LET calls == last.out.calls
            n     == Len(calls)
        IN  /\ last.out.err = "none"
            /\ \A ks \in Keys(heap, Me).keys :
                  /\ Len(ks) = n
                  /\ {ks[i] : i \in 1..n} = {calls[i].key : i \in 1..n}
            /\ \A i \in 1..(n - 1) : StringLess(calls[i].key, calls[i + 1].key)
            /\ \A i \in 1..n : calls[i].elm.raw = heap[Me.raw.a].m[calls[i].key]

\* the keys "b", "ab", "B" of the text were visited as "B", "ab", "b"
C5_Witness ==
    /\ last.op = "EachMap" /\ last.args[1] = GoOn
    /\ Len(last.out.calls) = 3
    /\ [i \in 1..3 |-> last.out.calls[i].key] = <<"B", "ab", "b">>

\* C6: SelectByKey(key), and Select with key as its last step, on an
\* Element with a warn handler wrapping a map that does not hold key
\* returns a child wrapping nil and calls the warn handler exactly once.
C6_MissingKeyWarns ==
    /\ (/\ last.op = "SelectByKey" /\ IsMap(Me) /\ Me.WarnHandler
        /\ last.args[1].s \notin DOMAIN heap[Me.raw.a].m)
       => (IsNil(last.out) /\ last.warn = 1)
    /\ (/\ last.op = "Select" /\ Me.WarnHandler
        /\ \A i \in 1..Len(last.args) : last.args[i].t = "string"
        /\ LET parent == Chain(heap, Me, SubSeq(last.args, 1, Len(last.args) - 1))
           IN  /\ parent.warn = 0 /\ IsMap(parent.res)
               /\ last.args[Len(last.args)].s \notin DOMAIN heap[parent.res.raw.a].m)
       => (IsNil(last.out) /\ last.warn = 1)

\* C7: SelectByPos(i) on an Element with a warn handler wrapping an array
\* of length n, for i outside 0..n-1 (negative i included), does not crash,
\* returns a child wrapping nil and calls the warn handler.
C7_OutOfRange ==
    (/\ last.op = "SelectByPos" /\ IsArray(Me) /\ Me.WarnHandler
     /\ last.args[1].n \notin 0..(Len(ArrOf(heap, Me.raw)) - 1))
    => (~last.panic /\ IsNil(last.out) /\ last.warn = 1)

\* C8: deleting what is absent (a key not in the map, a position outside
\* 0..n-1 of the array, negative ones included) through a non-read-only
\* Element wrapping a map or an editable array returns no error, does not
\* crash and changes nothing.
C8_DeleteAbsent ==
    /\ (/\ last.op = "DeleteByPos" /\ Me.raw.t = "parr" /\ ~Me.Readonly
        /\ last.args[1].n \notin 0..(Count(heap, Me).n - 1))
       => (last.err = "none" /\ ~last.panic)
    /\ (/\ last.op = "DeleteByKey" /\ IsMap(Me) /\ ~Me.Readonly
        /\ last.args[1].s \notin DOMAIN heap[Me.raw.a].m)
       => (last.err = "none" /\ ~last.panic)

\* Count on a map or an array: the number of entries, which is the number
\* of calls EachMap or EachArray makes to a visitor that goes on, the number
\* of keys Keys() returns and the length of AsArray(); no warning
C9_Containers ==
    /\ (last.op = "Count" /\ IsMap(Me)) =>
          /\ last.out.n = Cardinality(DOMAIN heap[Me.raw.a].m) /\ last.warn = 0
          /\ \A o \in EachMap(heap, Me, GoOn) : Len(o.calls) = last.out.n
          /\ \A ks \in Keys(heap, Me).keys : Len(ks) = last.out.n
    /\ (last.op = "Count" /\ IsArray(Me)) =>
          /\ last.out.n = Len(EachArray(heap, Me, GoOn).calls) /\ last.warn = 0
          /\ last.out.n = Len(AsArray(heap, Me).arr)

\* Count on nil: 0, with a warning
C9_Null ==
    (last.op = "Count" /\ IsNil(Me) /\ Me.WarnHandler) => (last.out.n = 0 /\ last.warn = 1)

\* C9 as stated: Count returns the number of entries of a map or an array,
\* 1 for a scalar without calling the warn handler, and 0 with a warning
\* for nil.
C9_Original ==
    /\ C9_Containers /\ C9_Null
    /\ (last.op = "Count" /\ IsScalar(Me.raw) /\ Me.WarnHandler) =>
          (last.out.n = 1 /\ last.warn = 0)

\* C9, amended: Count returns the number of entries of a map or an array
\* (for an array the number of calls EachArray makes and the length of
\* AsArray()) without a warning, 1 for a scalar with one call of the warn
\* handler, and 0 with one call of the warn handler for nil.
C9_Count ==
    /\ C9_Containers /\ C9_Null
    /\ (last.op = "Count" /\ IsScalar(Me.raw) /\ Me.WarnHandler) =>
          (last.out.n = 1 /\ last.warn = 1)

\* Count was called on a string selected from the tree
C9_Witness ==
    /\ last.op = "Count" /\ last.slot = "sub"
    /\ Me.raw.t = "string" /\ last.out.n = 1 /\ last.warn = 1

\* the path a Select call names: the strings of a leading []string, then
\* the other arguments
C10_Path(args) ==
    IF args[1].t = "[]string"
    THEN [i \in 1..(Len(args[1].s) + Len(args) - 1) |->
            IF i <= Len(args[1].s) THEN StrV(args[1].s[i]) ELSE args[i - Len(args[1].s) + 1]]
    ELSE args

\* C10: Select(k1, ..., kn) over strings and integers returns an Element
\* wrapping the value that SelectByKey and SelectByPos applied key by key
\* lead to (and crashes where they crash), and Select with a leading
\* []string followed by further keys returns what Select returns for the
\* strings and the further keys passed one by one.
C10_SelectIsChain ==
    (last.op = "Select" /\ C10_Path(last.args) # <<>>) =>
        LET path == C10_Path(last.args)
            c    == Chain(heap, Me, path)
            flat == Select(heap, Me, Head(path), Tail(path))
        IN  /\ last.panic = c.panic
            /\ ~c.panic => last.out.raw = c.res.raw
            /\ last.args[1].t = "[]string" =>
                  (flat.panic = last.panic /\ flat.warn = last.warn /\ flat.res = last.out)

\* a Select with a leading []string and a further key reached a value
C10_Witness ==
    /\ last.op = "Select" /\ last.args[1].t = "[]string" /\ Len(last.args) > 1
    /\ Len(last.args[1].s) > 0 /\ ~IsNil(last.out)

\* the calls an enumeration of the latest call's Element makes to a
\* visitor that goes on: one sequence per order a range may yield
FullRuns ==
    CASE last.op = "EachMap"   -> {o.calls : o \in EachMap(heap, Me, GoOn)}
      [] last.op = "EachArray" -> {EachArray(heap, Me, GoOn).calls}
      [] OTHER                 -> {o.calls : o \in Walk(heap, Me, GoOn)}

\* C11: in EachMap on a map, EachArray on an array and Walk, a visitor that
\* stops or fails at its call number k is called k times and never again;
\* the calls made are the first k of an enumeration that goes on; a failure
\* comes back as an error, a stop (or an enumeration that ends before call
\* k) as no error.
C11_StopOrFail ==
    (/\ last.op \in {"EachMap", "EachArray", "Walk"}
     /\ last.args[1].act \in {"stop", "err"}
     /\ last.op = "EachMap" => IsMap(Me)
     /\ last.op = "EachArray" => IsArray(Me)) =>
        LET cb    == last.args[1]
            calls == last.out.calls
        IN  /\ Len(calls) <= cb.at
            /\ Len(calls) = cb.at =>
                  last.out.err = (IF cb.act = "err" THEN "callback" ELSE "none")
            /\ Len(calls) < cb.at => last.out.err = "none"
            /\ \E full \in FullRuns :
                  /\ Len(full) >= Len(calls)
                  /\ SubSeq(full, 1, Len(calls)) = calls
                  /\ Len(calls) < cb.at => full = calls

\* Walk was stopped at its second call, made inside a map of the root,
\* with entries of the root still unvisited
C11_Witness ==
    /\ last.op = "Walk" /\ last.args[1] = [at |-> 2, act |-> "stop"]
    /\ Len(last.out.calls) = 2 /\ last.out.calls[2].parents = <<StrV("m1")>>
    /\ last.out.err = "none"
    /\ IsMap(Me) /\ Cardinality(DOMAIN heap[Me.raw.a].m) > 1

RECURSIVE Entries(_, _, _)
\* the entries of the arrays and maps in the tree of value v, each with the
\* keys and indices that lead to its container from v
Entries(h, v, parents) ==
    CASE v.t \in {"slice", "parr"} ->
            UNION {{[parents |-> parents, key |-> IntV(i - 1), val |-> ArrOf(h, v)[i]]}
                     \cup Entries(h, ArrOf(h, v)[i], Append(parents, IntV(i - 1)))
                   : i \in 1..Len(ArrOf(h, v))}
      [] v.t = "map" ->
            UNION {{[parents |-> parents, key |-> StrV(k), val |-> h[v.a].m[k]]}
                     \cup Entries(h, h[v.a].m[k], Append(parents, StrV(k)))
                   : k \in DOMAIN h[v.a].m}
      [] OTHER -> {}

\* call d was made for an entry below the entry of call c
IsUnder(d, c) ==
    /\ Len(d.parents) > Len(c.parents)
    /\ SubSeq(d.parents, 1, Len(c.parents) + 1) = Append(c.parents, c.key)

\* C16: Walk with a visitor that goes on calls it once for every entry of
\* every array and map in the tree, with the keys and indices from the
\* walked value to the entry's container as parents, the entry's key or
\* index and its raw value; the calls for the entries below an entry come
\* after the call for that entry, one after the other, before any other.
C16_WalkPreOrder ==
    (last.op = "Walk" /\ last.args[1] = GoOn) =>
        LET calls == last.out.calls
            n     == Len(calls)
            all   == Entries(heap, Me.raw, <<>>)
        IN  /\ last.out.err = "none"
            /\ {calls[i] : i \in 1..n} = all
            /\ n = Cardinality(all)
            /\ \A i, j \in 1..n :
                  IsUnder(calls[j], calls[i]) =>
                      (i < j /\ \A k \in (i + 1)..j : IsUnder(calls[k], calls[i]))

\* the seven entries of the nested text were visited, two levels down too
C16_Witness ==
    /\ last.op = "Walk" /\ last.args[1] = GoOn /\ last.slot = "root"
    /\ Len(last.out.calls) = 7
    /\ \E i \in 1..7 : last.out.calls[i].parents = <<StrV("m1"), StrV("arr")>>

C12_Step ==
    LET me   == elems[last'.slot]
        key  == last'.args[1].s
        vals == Tail(last'.args)
        old  == heap[me.raw.a].m
        new  == heap'[me.raw.a].m
    IN  (last'.op = "Put" /\ IsMap(me) /\ ~me.Readonly) =>
            /\ last'.err = "none" /\ ~last'.panic
            /\ DOMAIN new = DOMAIN old \cup {key}
            /\ \A k \in DOMAIN old \ {key} :
                  /\ new[k] = old[k]
                  /\ me.raw.a \notin Reach(heap, old[k]) =>
                        Graph(heap', new[k]) = Graph(heap, old[k])
            /\ Len(vals) = 1 => SelectByKey(heap', me, key).res.raw = elm2Raw(vals[1])
            /\ Len(vals) >= 2 =>
                  LET sub == SelectByKey(heap', me, key).res
                  IN  /\ IsArray(sub)
                      /\ sub.raw.t = "parr" => sub.raw.a \notin DOMAIN heap
                      /\ ArrOf(heap', sub.raw) = updateElms2Raws(vals)
                      /\ AppendVals(heap', sub, IntV(0), <<>>).err = "none"
                      /\ DeleteByPos(heap', sub, 0).err = "none"

\* C12: through a non-read-only Element wrapping a map, Put(key, v) makes
\* SelectByKey(key) wrap v (the value an Element passed as v wraps), in
\* place of what was at key and with every other key as it was, and
\* Put(key, v1, ..., vk) with two or more values stores under key a new
\* array holding v1..vk in that order, on which Append and DeleteByPos
\* return no error.
C12_PutStores == [][C12_Step]_vars

\* an Append went through on the array that a Put of two values had
\* stored over an earlier value of the key
C12_Witness ==
    /\ last.op = "Append" /\ last.err = "none" /\ last.slot = "sub"
    /\ Me.raw.t = "parr"
    /\ Len(heap[Me.raw.a].s) > 2
    /\ SubSeq(heap[Me.raw.a].s, 1, 2) = <<IntV(1), StrV("x")>>
    /\ IsMap(elems["root"]) /\ Cardinality(DOMAIN heap[elems["root"].raw.a].m) > 1

\* C13: String() of an Element gives one text: the same Element
\* serialised again, or an Element built from the same bytes and reached by
\* the same path, gives the text it gave, maps of two or more keys included.
C13_OneText ==
    last.op = "String" => String(heap, Me) = {last.out.s}

MutationOps ==
    {"Put", "Append", "PutEmptyMap", "PutEmptyArray", "DeleteByKey", "DeleteByPos", "Delete"}

\* the call asks for a container of a type that the Element does not wrap,
\* or is a Delete of something that is neither an int nor a string
IsTypeError(op, me, args) ==
    \/ op \in {"Put", "PutEmptyMap", "PutEmptyArray", "DeleteByKey"} /\ ~IsMap(me)
    \/ op \in {"Append", "DeleteByPos"} /\ me.raw.t # "parr"
    \/ op = "Delete" /\ args[1].t \notin {"int", "string"}
    \/ op = "Delete" /\ args[1].t = "int" /\ me.raw.t # "parr"
    \/ op = "Delete" /\ args[1].t = "string" /\ ~IsMap(me)

\* C14: every mutation reports the null-state error for an Element wrapping
\* nil, else the read-only error for a read-only Element, and only then a
\* type error (the wrong container, or a Delete argument that is neither an
\* int nor a string).
C14_PreconditionOrder ==
    last.op \in MutationOps =>
        /\ IsNil(Me) => last.err = "null"
        /\ (~IsNil(Me) /\ Me.Readonly) => last.err = "readonly"
        /\ (~IsNil(Me) /\ ~Me.Readonly /\ IsTypeError(last.op, Me, last.args)) =>
              last.err \in {"type", "badarg"}

\* key k cannot be taken from Element e: e wraps no map (for a string) or no
\* array (for an int), or the key is absent, or the index is past the end
FailsAt(h, e, k) ==
    IF k.t = "string" THEN ~IsMap(e) \/ k.s \notin DOMAIN h[e.raw.a].m
    ELSE ~IsArray(e) \/ k.n >= Len(ArrOf(h, e.raw))

\* C15: when a step of a Select over two or more keys fails (an absent key,
\* an index past the end, a key or an index on a value of the wrong type),
\* the result wraps nil and the warn handler is called exactly once.
C15_OneWarning ==
    (/\ last.op = "Select" /\ ~last.panic /\ Me.WarnHandler /\ ~IsNil(Me)
     /\ Len(C10_Path(last.args)) >= 2
     /\ \E i \in 1..Len(C10_Path(last.args)) :
           LET at == Chain(heap, Me, SubSeq(C10_Path(last.args), 1, i - 1))
           IN  ~at.panic /\ FailsAt(heap, at.res, C10_Path(last.args)[i]))
    => (IsNil(last.out) /\ last.warn = 1)

\* array arr without its entry at position i, the later entries one down
Shifted(arr, i) ==
    [j \in 1..(Len(arr) - 1) |-> IF j <= i THEN arr[j] ELSE arr[j + 1]]

C17_Step ==
    LET me  == elems[last'.slot]
        pos == last'.args[1].n
        old == heap[me.raw.a].s
    IN  (/\ last'.op \in {"DeleteByPos", "Delete"} /\ last'.args[1].t = "int"
         /\ me.raw.t = "parr" /\ ~me.Readonly
         /\ pos >= 0 /\ pos < Len(old)) =>
            /\ last'.err = "none" /\ ~last'.panic /\ last'.warn = 0
            /\ Count(heap', me).n = Len(old) - 1
            /\ \A j \in Slots :
                  (Live(j) /\ elems[j].raw = me.raw) =>
                      [i \in 1..Len(AsArray(heap', elems'[j]).arr) |->
                          AsArray(heap', elems'[j]).arr[i].raw] = Shifted(old, pos)
            /\ \A p \in ObsPaths :
                  FromRoot(heap, elems, p).raw = me.raw =>
                      ArrOf(heap', FromRoot(heap', elems', p).raw) = Shifted(old, pos)

\* C17: DeleteByPos(i) with 0 <= i < n through a non-read-only Element
\* wrapping an editable array of length n returns no error and leaves an
\* array of length n-1 with the entries before i as they were and each
\* later entry one position down, as read through every Element wrapping
\* the array and through the root.
C17_DeleteShifts == [][C17_Step]_vars

\* the first of the two entries of an array under a key of the root was
\* deleted through sub
C17_Witness ==
    /\ last.op = "DeleteByPos" /\ last.slot = "sub" /\ last.err = "none"
    /\ last.args[1].n = 0 /\ Me.raw.t = "parr"
    /\ heap[Me.raw.a].s = <<StrV("x")>>
    /\ FromRoot(heap, elems, <<StrV("a")>>).raw = Me.raw

\* the call is a Put, Append or Delete* that suits the value the Element
\* wraps: a map for Put and a delete by key, an editable array for Append
\* and a delete by a position that is not negative
TypeFits(op, me, args) ==
    \/ op \in {"Put", "DeleteByKey"} /\ IsMap(me)
    \/ op = "Delete" /\ args[1].t = "string" /\ IsMap(me)
    \/ op = "Append" /\ me.raw.t = "parr"
    \/ op = "DeleteByPos" /\ me.raw.t = "parr" /\ args[1].n >= 0
    \/ op = "Delete" /\ args[1].t = "int" /\ me.raw.t = "parr" /\ args[1].n >= 0

C18_Step ==
    LET s    == last'.slot
        me   == elems[s]
        E    == elems["root"]
    IN  /\ (last'.op = "Select" /\ ~last'.panic /\ ~me.Readonly) =>
              ~elems'["sub"].Readonly
        /\ last'.op = "SetReadonly" =>
              \A j \in Slots \ {s} : elems'[j] = elems[j]
        /\ (/\ last'.op \in WriteOps /\ s = "sub" /\ ~me.Readonly /\ E.Readonly
            /\ TypeFits(last'.op, me, last'.args)
            /\ me.raw.a \in Reach(heap, E.raw)) =>
              /\ last'.err = "none" /\ ~last'.panic
              /\ \A p \in ObsPaths \cup {<<>>} :
                    (IF p = <<>> THEN E.raw = me.raw
                     ELSE LeadsTo(heap, elems, p, me.raw)) =>
                        LET seen == IF p = <<>> THEN elems'["root"]
                                    ELSE FromRoot(heap', elems', p)
                        IN  /\ last'.op = "Put" =>
                                  SelectByKey(heap', seen, last'.args[1].s).res.raw
                                     = (IF Len(last'.args) = 2 THEN elm2Raw(last'.args[2])
                                        ELSE SelectByKey(heap', elems'[s],
                                                         last'.args[1].s).res.raw)
                            /\ last'.op = "Append" =>
                                  Count(heap', seen).n
                                     = Count(heap, seen).n + Len(last'.args)
                            /\ Graph(heap', seen.raw) = Graph(heap', elems'[s].raw)

\* C18: a child selected through an Element without the read-only flag
\* carries no flag, setting the flag on an Element leaves the other
\* Elements as they are, and a Put, Append or Delete through such an
\* unflagged Element wrapping a container that a read-only Element reaches
\* returns no error, with its effect read through the read-only Element
\* (along a path that led to the container first at its end).
C18_ReadonlyAdvisory == [][C18_Step]_vars

\* a Put went through sub, selected from the root before the root was made
\* read-only
C18_Witness ==
    /\ last.op = "Put" /\ last.slot = "sub" /\ last.err = "none"
    /\ ~Me.Readonly /\ Me.Level > 0 /\ elems["root"].Readonly
    /\ \E p \in ObsPaths : FromRoot(heap, elems, p).raw = Me.raw

\* the tree read from the root
RootTree(h, es) == Graph(h, es["root"].raw)

C19_Step ==
    (last'.op \in MutationOps /\ last'.err # "none") =>
        /\ ~last'.panic
        /\ RootTree(heap', elems') = RootTree(heap, elems)
        /\ \A j \in Slots : Live(j) =>
              (elems'[j] = elems[j]
                 /\ Graph(heap', elems'[j].raw) = Graph(heap, elems[j].raw))
        /\ heap' = heap

\* C19: when Put, Append, PutEmptyMap, PutEmptyArray, Delete, DeleteByKey
\* or DeleteByPos returns an error (for nil, for read-only, for the wrong
\* type of container or of Delete argument), the tree read from the root,
\* and from every Element held, is as it was before the call.
C19_FailureAtomic == [][C19_Step]_vars

\* an Append was refused as read-only on an editable array that holds
\* entries
C19_Witness ==
    /\ last.op = "Append" /\ last.err = "readonly"
    /\ Me.raw.t = "parr" /\ Len(heap[Me.raw.a].s) > 0

\* the Element wraps a map or an editable array that the root does not
\* reach
Detached(h, es, e) ==
    /\ e # NoElem /\ IsContainerRef(e.raw)
    /\ e.raw.a \notin Reach(h, es["root"].raw)

C20_Step ==
    LET s  == last'.slot
        me == elems[s]
    IN  /\ (/\ last'.op \in {"Put", "DeleteByKey", "Delete"} /\ last'.err = "none"
            /\ last'.args[1].t = "string" /\ IsMap(me)
            /\ last'.args[1].s \in DOMAIN heap[me.raw.a].m) =>
              \A j \in Slots \ {s} :
                  (/\ Live(j) /\ (IsMap(elems[j]) \/ IsArray(elems[j]))
                   /\ elems[j].raw = heap[me.raw.a].m[last'.args[1].s]) =>
                      /\ elems'[j] = elems[j]
                      /\ Graph(heap', elems'[j].raw) = Graph(heap, elems[j].raw)
        /\ (/\ last'.op \in WriteOps /\ s = "sub" /\ Detached(heap, elems, me)
            /\ ~me.Readonly /\ TypeFits(last'.op, me, last'.args)) =>
              /\ last'.err = "none" /\ ~last'.panic
              /\ RootTree(heap', elems') = RootTree(heap, elems)
              /\ \A a \in Reach(heap, elems["root"].raw) : heap'[a] = heap[a]
              /\ last'.op = "Put" =>
                    last'.args[1].s \in DOMAIN heap'[me.raw.a].m
              /\ last'.op = "Append" =>
                    Count(heap', elems'[s]).n = Count(heap, me).n + Len(last'.args)

\* C20: when a Put or a delete through the parent replaces or removes the
\* key under which a map or an array is stored, an Element
\* obtained earlier for that container wraps and reads what it did; a Put,
\* Append or Delete through an Element wrapping a container the root no
\* longer reaches returns no error, takes effect in that container and
\* leaves everything the root reaches as it was.
C20_DetachedElement == [][C20_Step]_vars

\* a Put went through sub on a map selected from the root and then taken
\* out of the root
C20_Witness ==
    /\ last.op = "Put" /\ last.slot = "sub" /\ last.err = "none"
    /\ Me.Level > 0 /\ Detached(heap, elems, Me)
    /\ last.args[1].s \in DOMAIN heap[Me.raw.a].m
    /\ IsMap(elems["root"])

====
